---- MODULE Spec2Model ----
(***************************************************************************)
(* Model of src/helpers/push.ts: the push orchestrator of the Google Drive *)
(* sync plugin.  push is an async function; every await on I/O is a point  *)
(* where other callbacks (another push invocation, the filesystem watcher) *)
(* may run.  The code between two awaits runs to completion.               *)
(*                                                                         *)
(* Collaborators whose code is not in src/ (startSync, endSync, pull,      *)
(* batchAsyncs, foldersToBatches, the filesystem watcher) are modelled     *)
(* from their contract in spec.md.  What pull does to the tree is not      *)
(* modelled: Init ranges over the states it can leave.  Progress messages  *)
(* (syncNotice.setMessage, completed) are left out.                        *)
(*                                                                         *)
(* The handlers of ConfirmUndoModal (the reversal of one recorded          *)
(* operation) are modelled by a second specification, UndoSpec, over the   *)
(* undo variables; t.createFolder, t.createFile, t.deleteFile and          *)
(* t.modifyFile are outside src/ and modelled from spec.md section 4.5.    *)
(***************************************************************************)
EXTENDS Naturals, Sequences, FiniteSets, TLC

\* ------------------------------------------------------------------ bounds
NumProcs == 2      \* push invocations that may overlap
MaxEvents == 1     \* local mutations reported by the filesystem watcher
BatchWidth == 2    \* concurrency width W of batchAsyncs

Procs == 1..NumProcs

\* ------------------------------------------------------------------- paths
Root == "/"
Folder == "folder"
SubFolder == "folder/sub"
Note == "folder/note.md"
NotesDir == "notes"
NoteA == "notes/a.md"
\* vault.configDir + "/plugins/google-drive-sync/data.json"
ConfigPath == ".obsidian/plugins/google-drive-sync/data.json"
\* a config object on the remote whose local counterpart is gone
StalePath == ".obsidian/stale.json"

JournalPaths == {Folder, SubFolder, Note, NoteA}
\* the paths the watcher reports mutations of while the model runs
WatchPaths == {Note}
ConfigPaths == {ConfigPath, StalePath}
AllPaths == JournalPaths \cup ConfigPaths \cup {Root, NotesDir}

IsFolder(path) == path \in {Root, Folder, SubFolder, NotesDir}

Parent(path) ==
    CASE path = SubFolder -> Folder
      [] path = Note -> Folder
      [] path = NoteA -> NotesDir
      [] OTHER -> Root

\* ---------------------------------------------------------------- identifiers
Nil == "undefined"
FreshIds == <<"new1", "new2", "new3", "new4", "new5", "new6", "new7", "new8">>

InitId(path) ==
    CASE path = NoteA -> "id1"
      [] path = Folder -> "id2"
      [] path = SubFolder -> "id3"
      [] path = Note -> "id4"
      [] path = NotesDir -> "id5"
      [] path = ConfigPath -> "id6"
      [] path = StalePath -> "id7"
      [] OTHER -> Nil

PathOrder == <<NotesDir, NoteA, Folder, SubFolder, Note, ConfigPath, StalePath>>

\* ------------------------------------------------- t.settings.driveIdToPath
\* A JavaScript object: string keys in insertion order, each with a path.
\* Modelled as a sequence of <<key, path>> entries.
IndexKeys(idx) == {idx[i][1] : i \in DOMAIN idx}

IndexPaths(idx) == {idx[i][2] : i \in DOMAIN idx}

IndexHas(idx, key, path) == \E i \in DOMAIN idx : idx[i] = <<key, path>>

\* obj[key] = path
IndexSet(idx, key, path) ==
    IF key \in IndexKeys(idx)
    THEN [i \in DOMAIN idx |-> IF idx[i][1] = key THEN <<key, path>> ELSE idx[i]]
    ELSE Append(idx, <<key, path>>)

\* delete obj[key]
IndexDelete(idx, key) == SelectSeq(idx, LAMBDA e : e[1] # key)

RECURSIVE IndexDeleteAll(_, _)
IndexDeleteAll(idx, keys) ==
    IF keys = {} THEN idx
    ELSE LET k == CHOOSE x \in keys : TRUE
         IN IndexDeleteAll(IndexDelete(idx, k), keys \ {k})

MaxOf(S) == CHOOSE x \in S : \A y \in S : y <= x

\* Object.fromEntries(Object.entries(driveIdToPath).map(([id, path]) => [path, id]))
\* A later entry for the same path overwrites an earlier one.
InvertIndex(idx) ==
    [path \in AllPaths |->
        LET hits == {i \in DOMAIN idx : idx[i][2] = path}
        IN IF hits = {} THEN Nil ELSE idx[MaxOf(hits)][1]]

\* ------------------------------------------------------------------ state
VARIABLES
    syncing,        \* t.syncing
    operations,     \* t.settings.operations: the Change Journal
    driveIdToPath,  \* t.settings.driveIdToPath: the Remote Identity Index
    vault,          \* paths that exist in the local tree
    nextId,         \* how many objects the remote has created
    events,         \* how many local mutations the watcher has reported
    pc,             \* where each push invocation stands
    pulled,         \* state of the pull(t, true) call of each invocation
    opsLocal,       \* const operations (line 142)
    deletes,        \* const deletes (line 144), grown at line 163
    pathsToIds,     \* const pathsToIds (line 148), grown at line 211
    configOnDrive,  \* const configOnDrive (line 152)
    existsPending,  \* config objects whose adapter.exists (line 162) is pending
    deleteReq,      \* the ids handed to batchDelete (line 170)
    tasks,          \* the create phase's batched actions, by path
    batchNo,        \* the folder batch being run (line 192)
    modTasks,       \* the modify phase's batched actions, by path
    persistReq,     \* the settings update (line 269): id used and outcome
    calls,          \* the kinds of remote call each invocation has issued
    notices,        \* the notices each invocation has raised
    touched,        \* paths the watcher wrote since the invocation's partition
    startIndex      \* the Index when the invocation partitioned the Journal

\* ConfirmUndoModal and the local tree it works on
VARIABLES
    undoPc,         \* where the modal's handler stands
    undoOp,         \* the handler invoked: which kind of operation is reversed
    undoPaths,      \* the paths handed to the handler
    localTree,      \* the local tree: per path its kind, content and mtime
    filePathToId,   \* this.filePathToId (line 41)
    faults,         \* what the remote fails to return during the handler
    pathToFile,     \* const pathToFile (line 64): the paths the search found
    undoTasks,      \* the batched actions of line 85, by path
    undoBatch,      \* the folder batch being run (line 74)
    undoCalls,      \* the remote and local calls the handler has issued
    undoNotices,    \* the notices the handler has raised
    treeAtCall,     \* the local tree when the handler was invoked
    preCreate       \* the last local creation: its path and the tree before it

undo == <<undoPc, undoOp, undoPaths, localTree, filePathToId, faults, pathToFile,
          undoTasks, undoBatch, undoCalls, undoNotices, treeAtCall, preCreate>>

shared == <<syncing, operations, driveIdToPath, vault, nextId, events>>
locals == <<opsLocal, deletes, pathsToIds, configOnDrive, existsPending, deleteReq, tasks,
            batchNo, modTasks, persistReq>>
ghosts == <<pulled, calls, notices, touched, startIndex>>
pushVars == <<shared, pc, locals, ghosts>>
vars == <<pushVars, undo>>

NoOps == [path \in JournalPaths |-> "none"]
EmptyFn == [path \in {} |-> Nil]
NoSettings == [driveIdToPath |-> <<>>, operations |-> NoOps, sent |-> FALSE]
NoPersist == [id |-> Nil, res |-> "none", blob |-> NoSettings]
NewTask == [st |-> "todo", parent |-> Nil, id |-> Nil]

\* ------------------------------------------------- the tree of the reversal
\* folderMimeType of ./drive; as a path it names a note in folder "application"
folderMimeType == "application/vnd.google-apps.folder"
MimePath == folderMimeType

UndoPaths == {Folder, Note, NoteA, MimePath}
UndoOrder == <<NoteA, Folder, Note, MimePath>>

Absent == [kind |-> "absent", content |-> Nil, mtime |-> Nil]
NoTree == [path \in UndoPaths |-> Absent]
LocalNode(path) ==
    IF IsFolder(path)
    THEN [kind |-> "folder", content |-> Nil, mtime |-> Nil]
    ELSE [kind |-> "file", content |-> "local bytes", mtime |-> "local time"]

NoFaults == [search |-> FALSE, missing |-> {}, noContent |-> {}, noMetadata |-> FALSE]
NoCreate == [path |-> Nil, tree |-> NoTree]

\* No modal is open while push is looked at.
UndoIdle ==
    /\ undoPc = "closed"
    /\ undoOp = "none"
    /\ undoPaths = {}
    /\ localTree = NoTree
    /\ filePathToId = [path \in UndoPaths |-> Nil]
    /\ faults = NoFaults
    /\ pathToFile = {}
    /\ undoTasks = EmptyFn
    /\ undoBatch = 0
    /\ undoCalls = {}
    /\ undoNotices = {}
    /\ treeAtCall = NoTree
    /\ preCreate = NoCreate

\* ------------------------------------------------------------------- Init
\* The state between sync sessions: a tree that was synced, and the local
\* mutations journaled since.
WasSynced(v, j, path) ==
    \/ path \in {NotesDir, ConfigPath, StalePath}
    \/ path \in JournalPaths /\ j[path] \in {"modify", "delete"}
    \/ path \in JournalPaths /\ j[path] = "none" /\ path \in v

InitOk(v, j) ==
    \A path \in JournalPaths :
        /\ path \in v => Parent(path) \in v \cup {Root, NotesDir}
        /\ j[path] = "create" => path \in v
        /\ j[path] = "modify" => path \in v /\ ~IsFolder(path)
        /\ j[path] = "delete" => path \notin v
        /\ (j[path] = "none" /\ path \notin v) => Parent(path) \notin v \cup {Root, NotesDir}
        /\ (WasSynced(v, j, path) /\ Parent(path) \in JournalPaths)
               => WasSynced(v, j, Parent(path))

InitIndex(v, j) ==
    SelectSeq([i \in DOMAIN PathOrder |-> <<InitId(PathOrder[i]), PathOrder[i]>>],
              LAMBDA e : WasSynced(v, j, e[2]))

Init ==
    /\ syncing = FALSE
    /\ vault \in SUBSET JournalPaths
    /\ operations \in [JournalPaths -> {"none", "create", "modify", "delete"}]
    /\ InitOk(vault, operations)
    /\ driveIdToPath = InitIndex(vault, operations)
    /\ nextId = 0
    /\ events = 0
    /\ pc = [p \in Procs |-> "idle"]
    /\ pulled = [p \in Procs |-> "no"]
    /\ opsLocal = [p \in Procs |-> NoOps]
    /\ deletes = [p \in Procs |-> {}]
    /\ pathsToIds = [p \in Procs |-> [path \in AllPaths |-> Nil]]
    /\ configOnDrive = [p \in Procs |-> {}]
    /\ existsPending = [p \in Procs |-> {}]
    /\ deleteReq = [p \in Procs |-> {}]
    /\ tasks = [p \in Procs |-> EmptyFn]
    /\ batchNo = [p \in Procs |-> 0]
    /\ modTasks = [p \in Procs |-> EmptyFn]
    /\ persistReq = [p \in Procs |-> NoPersist]
    /\ calls = [p \in Procs |-> {}]
    /\ notices = [p \in Procs |-> {}]
    /\ touched = [p \in Procs |-> {}]
    /\ startIndex = [p \in Procs |-> <<>>]
    /\ UndoIdle

\* pcs in which an invocation is running synchronous code: no other callback
\* can run until it reaches its next await.
SyncPcs == {"existsDone", "createPhase", "modifyPhase", "persistPhase"}
Busy == \E p \in Procs : pc[p] \in SyncPcs

\* pcs of an invocation that has partitioned the Journal and not yet ended
AfterPartition == {"search", "exists", "existsDone", "delete", "createPhase", "folders",
                   "notes", "modifyPhase", "modifies", "persistPhase", "persist"}

\* ------------------------------------------------------------- push: entry
\* Lines 126-139: the flag check, then startSync, which sets the flag.
\* t.startSync() sets the flag before it first awaits; t.endSync() clears it.
SyncingAfterStartSync == TRUE
SyncingAfterEndSync == FALSE

\* Mutant of Push: the flag check of line 126 is missing.
PushNoFlagCheck(p) ==
    /\ pc[p] = "idle"
    /\ \A q \in Procs : q < p => pc[q] \notin {"idle", "done"}
    /\ ~Busy
    /\ syncing' = SyncingAfterStartSync
    /\ pc' = [pc EXCEPT ![p] = "startSync"]
    /\ UNCHANGED <<operations, driveIdToPath, vault, nextId, events, locals, ghosts>>
    /\ UNCHANGED undo

\* Invocations are numbered in the order in which they are made.  A behaviour
\* follows one session and the invocations made while it runs, while it
\* awaits endSync, or after it aborted; a push made after an invocation
\* returned from a completed session starts from a state of Init.
Push(p) ==
    /\ pc[p] = "idle"
    /\ \A q \in Procs : q < p => pc[q] \notin {"idle", "done"}
    /\ ~Busy
    /\ IF syncing
       THEN /\ pc' = [pc EXCEPT ![p] = "returned"]
            /\ UNCHANGED syncing
       ELSE /\ syncing' = SyncingAfterStartSync
            /\ pc' = [pc EXCEPT ![p] = "startSync"]
    /\ UNCHANGED <<operations, driveIdToPath, vault, nextId, events,
                   locals, ghosts>>
    /\ UNCHANGED undo

\* Mutant of StartPull: pull is invoked and not awaited.
StartPullNoAwait(p) ==
    /\ pc[p] = "startSync"
    /\ ~Busy
    /\ pulled' = [pulled EXCEPT ![p] = "invoked"]
    /\ opsLocal' = [opsLocal EXCEPT ![p] = operations]
    /\ deletes' = [deletes EXCEPT ![p] = {path \in JournalPaths : operations[path] = "delete"}]
    /\ pathsToIds' = [pathsToIds EXCEPT ![p] = InvertIndex(driveIdToPath)]
    /\ calls' = [calls EXCEPT ![p] = @ \cup {"search"}]
    /\ startIndex' = [startIndex EXCEPT ![p] = driveIdToPath]
    /\ pc' = [pc EXCEPT ![p] = "search"]
    /\ UNCHANGED <<shared, configOnDrive, existsPending, deleteReq, tasks, batchNo, modTasks,
                   persistReq, notices, touched>>
    /\ UNCHANGED undo

\* Line 140: startSync has settled; pull(t, true) is invoked.
StartPull(p) ==
    /\ pc[p] = "startSync"
    /\ ~Busy
    /\ pc' = [pc EXCEPT ![p] = "pull"]
    /\ pulled' = [pulled EXCEPT ![p] = "invoked"]
    /\ UNCHANGED <<shared, locals, calls, notices, touched, startIndex>>
    /\ UNCHANGED undo

\* Lines 142-152: pull has completed; the Journal is partitioned, the Index
\* inverted and the config search issued.
PullDone(p) ==
    /\ pc[p] = "pull"
    /\ ~Busy
    /\ pulled' = [pulled EXCEPT ![p] = "completed"]
    /\ opsLocal' = [opsLocal EXCEPT ![p] = operations]
    /\ deletes' = [deletes EXCEPT ![p] = {path \in JournalPaths : operations[path] = "delete"}]
    /\ pathsToIds' = [pathsToIds EXCEPT ![p] = InvertIndex(driveIdToPath)]
    /\ calls' = [calls EXCEPT ![p] = @ \cup {"search"}]
    /\ startIndex' = [startIndex EXCEPT ![p] = driveIdToPath]
    /\ pc' = [pc EXCEPT ![p] = "search"]
    /\ UNCHANGED <<shared, configOnDrive, existsPending, deleteReq, tasks, batchNo, modTasks,
                   persistReq, notices, touched>>
    /\ UNCHANGED undo

\* ------------------------------------------------------ push: delete phase
FetchError == "An error occurred fetching Google Drive files."
DeleteError == "An error occurred deleting Google Drive files."
FolderError == "Error creating folders."
UploadError == "Error uploading file."
ModifyError == "Error modifying file."

\* What the remote holds tagged config = "true"
SearchResults == {{ConfigPath}, {ConfigPath, StalePath}}

\* Lines 152-162: the config search settles.  No result: a notice and return.
\* Otherwise adapter.exists is called for every config object found.
SearchResp(p) ==
    /\ pc[p] = "search"
    /\ ~Busy
    /\ \E ok \in BOOLEAN, res \in SearchResults :
        IF ok
        THEN /\ configOnDrive' = [configOnDrive EXCEPT ![p] = res]
             /\ existsPending' = [existsPending EXCEPT ![p] = res]
             /\ pc' = [pc EXCEPT ![p] = IF res = {} THEN "existsDone" ELSE "exists"]
             /\ UNCHANGED notices
        ELSE /\ notices' = [notices EXCEPT ![p] = @ \cup {FetchError}]
             /\ pc' = [pc EXCEPT ![p] = "aborted"]
             /\ UNCHANGED <<configOnDrive, existsPending>>
    /\ UNCHANGED <<shared, opsLocal, deletes, pathsToIds, deleteReq, tasks, batchNo,
                   modTasks, persistReq, pulled, calls, touched, startIndex>>
    /\ UNCHANGED undo

\* adapter.exists(path)
AdapterExists(path) == path \in vault \cup {Root, NotesDir, ConfigPath}

\* Lines 161-165: the adapter.exists of one config object settles; an object
\* without a local counterpart joins the deletes.  Other callbacks may run
\* before the next one settles.  When the last one has settled, Promise.all
\* resolves and push goes on without yielding.
ExistsResp(p, c) ==
    /\ pc[p] = "exists"
    /\ ~Busy
    /\ c \in existsPending[p]
    /\ existsPending' = [existsPending EXCEPT ![p] = @ \ {c}]
    /\ deletes' = [deletes EXCEPT ![p] = IF AdapterExists(c) THEN @ ELSE @ \cup {c}]
    /\ pc' = [pc EXCEPT ![p] = IF existsPending[p] = {c} THEN "existsDone" ELSE @]
    /\ UNCHANGED <<shared, opsLocal, pathsToIds, configOnDrive, deleteReq, tasks, batchNo,
                   modTasks, persistReq, ghosts>>
    /\ UNCHANGED undo

\* Mutant of ExistsDone: the length check of line 168 is missing, so the bulk
\* delete is requested with an empty list as well.
ExistsDoneNoLengthCheck(p) ==
    /\ pc[p] = "existsDone"
    /\ deleteReq' = [deleteReq EXCEPT ![p] = {pathsToIds[p][path] : path \in deletes[p]}]
    /\ calls' = [calls EXCEPT ![p] = @ \cup {"batchDelete"}]
    /\ pc' = [pc EXCEPT ![p] = "delete"]
    /\ UNCHANGED <<shared, opsLocal, deletes, pathsToIds, configOnDrive, existsPending,
                   tasks, batchNo, modTasks, persistReq, pulled, notices, touched,
                   startIndex>>
    /\ UNCHANGED undo

\* Lines 168-171: every existence check has settled; when there is something
\* to delete, one batchDelete is issued with the ids the paths resolve to.
ExistsDone(p) ==
    /\ pc[p] = "existsDone"
    /\ IF deletes[p] # {}
       THEN /\ deleteReq' = [deleteReq EXCEPT ![p] = {pathsToIds[p][path] : path \in deletes[p]}]
            /\ calls' = [calls EXCEPT ![p] = @ \cup {"batchDelete"}]
            /\ pc' = [pc EXCEPT ![p] = "delete"]
       ELSE /\ pc' = [pc EXCEPT ![p] = "createPhase"]
            /\ UNCHANGED <<deleteReq, calls>>
    /\ UNCHANGED <<shared, opsLocal, deletes, pathsToIds, configOnDrive, existsPending,
                   tasks, batchNo, modTasks, persistReq, pulled, notices, touched,
                   startIndex>>
    /\ UNCHANGED undo

\* Line 175: deletes.forEach(([path]) => delete t.settings.driveIdToPath[path])
ForgetDeleted(idx, paths) == IndexDeleteAll(idx, paths)

\* Mutant of DeleteResp: the return of line 173 is missing.
DeleteRespNoReturn(p) ==
    /\ pc[p] = "delete"
    /\ ~Busy
    /\ \E ok \in BOOLEAN :
        /\ notices' = [notices EXCEPT ![p] = IF ok THEN @ ELSE @ \cup {DeleteError}]
        /\ driveIdToPath' = ForgetDeleted(driveIdToPath, deletes[p])
        /\ pc' = [pc EXCEPT ![p] = "createPhase"]
    /\ UNCHANGED <<syncing, operations, vault, nextId, events, locals, pulled, calls,
                   touched, startIndex>>
    /\ UNCHANGED undo

\* Lines 172-176: the bulk delete settles.
DeleteResp(p) ==
    /\ pc[p] = "delete"
    /\ ~Busy
    /\ \E ok \in BOOLEAN :
        IF ok
        THEN /\ driveIdToPath' = ForgetDeleted(driveIdToPath, deletes[p])
             /\ pc' = [pc EXCEPT ![p] = "createPhase"]
             /\ UNCHANGED notices
        ELSE /\ notices' = [notices EXCEPT ![p] = @ \cup {DeleteError}]
             /\ pc' = [pc EXCEPT ![p] = "aborted"]
             /\ UNCHANGED driveIdToPath
    /\ UNCHANGED <<syncing, operations, vault, nextId, events,
                   locals, pulled, calls, touched, startIndex>>
    /\ UNCHANGED undo

\* ------------------------------------------------------ push: create phase
\* Lines 145-146: the journaled creates and modifies
Creates(p) == {path \in JournalPaths : opsLocal[p][path] = "create"}
Modifies(p) == {path \in JournalPaths : opsLocal[p][path] = "modify"}

FolderTasks(p) == {f \in DOMAIN tasks[p] : IsFolder(f)}
NoteTasks(p) == {f \in DOMAIN tasks[p] : ~IsFolder(f)}

\* foldersToBatches: batch i holds the folders at depth i; a folder whose
\* parent is not in the set is at depth 0.
RECURSIVE Depth(_, _)
Depth(f, S) == IF Parent(f) \in S THEN 1 + Depth(Parent(f), S) ELSE 0

NumBatches(S) == IF S = {} THEN 0 ELSE 1 + MaxOf({Depth(f, S) : f \in S})

Batch(S, i) == {f \in S : Depth(f, S) = i - 1}

\* batchAsyncs: an action has settled when it returned or threw; an action
\* holds its slot from its start until it settles.
Settled(t, S) == \A f \in S : t[f].st \in {"ok", "failed", "rejected"}
InFlight(t) == Cardinality({f \in DOMAIN t : t[f].st \in {"reading", "sent"}})

\* vault.readBinary(file) resolves for a file of the tree and rejects otherwise
ReadBinaryOk(path) == path \in vault

\* Mutant of CreatePhase: the journaled creates are not looked up in the vault.
CreatePhaseNoLookup(p) ==
    /\ pc[p] = "createPhase"
    /\ IF Creates(p) = {}
       THEN /\ pc' = [pc EXCEPT ![p] = "modifyPhase"]
            /\ UNCHANGED <<tasks, batchNo>>
       ELSE LET files == Creates(p)
            IN /\ tasks' = [tasks EXCEPT ![p] = [f \in files |-> NewTask]]
               /\ IF \E f \in files : IsFolder(f)
                  THEN /\ batchNo' = [batchNo EXCEPT ![p] = 1]
                       /\ pc' = [pc EXCEPT ![p] = "folders"]
                  ELSE /\ pc' = [pc EXCEPT ![p] = "notes"]
                       /\ UNCHANGED batchNo
    /\ UNCHANGED <<shared, opsLocal, deletes, pathsToIds, configOnDrive, existsPending, deleteReq,
                   modTasks, persistReq, ghosts>>
    /\ UNCHANGED undo

\* Lines 180-191: the journaled creates are looked up in the vault and split
\* into folders and notes.
CreatePhase(p) ==
    /\ pc[p] = "createPhase"
    /\ IF Creates(p) = {}
       THEN /\ pc' = [pc EXCEPT ![p] = "modifyPhase"]
            /\ UNCHANGED <<tasks, batchNo>>
       ELSE LET files == {path \in Creates(p) : path \in vault}
            IN /\ tasks' = [tasks EXCEPT ![p] = [f \in files |-> NewTask]]
               /\ IF \E f \in files : IsFolder(f)
                  THEN /\ batchNo' = [batchNo EXCEPT ![p] = 1]
                       /\ pc' = [pc EXCEPT ![p] = "folders"]
                  ELSE /\ pc' = [pc EXCEPT ![p] = "notes"]
                       /\ UNCHANGED batchNo
    /\ UNCHANGED <<shared, opsLocal, deletes, pathsToIds, configOnDrive, existsPending, deleteReq,
                   modTasks, persistReq, ghosts>>
    /\ UNCHANGED undo

\* Lines 195-202: a batched action starts; createFolder is issued with the
\* parent id that pathsToIds holds now.
StartFolder(p, f) ==
    /\ pc[p] = "folders"
    /\ ~Busy
    /\ f \in Batch(FolderTasks(p), batchNo[p])
    /\ tasks[p][f].st = "todo"
    /\ InFlight(tasks[p]) < BatchWidth
    /\ tasks' = [tasks EXCEPT ![p][f] =
                    [st |-> "sent", parent |-> pathsToIds[p][Parent(f)], id |-> Nil]]
    /\ calls' = [calls EXCEPT ![p] = @ \cup {"createFolder"}]
    /\ UNCHANGED <<shared, pc, opsLocal, deletes, pathsToIds, configOnDrive, existsPending, deleteReq,
                   batchNo, modTasks, persistReq, pulled, notices, touched, startIndex>>
    /\ UNCHANGED undo

\* Mutant of Record: key and value are swapped.
RecordSwapped(idx, id, path) == IndexSet(idx, path, id)

\* Lines 210, 235: t.settings.driveIdToPath[id] = path
Record(idx, id, path) == IndexSet(idx, id, path)

\* Lines 203-211: createFolder settles.
FolderResp(p, f) ==
    /\ pc[p] = "folders"
    /\ ~Busy
    /\ f \in FolderTasks(p)
    /\ tasks[p][f].st = "sent"
    /\ \E ok \in BOOLEAN :
        IF ok
        THEN /\ nextId < Len(FreshIds)
             /\ LET id == FreshIds[nextId + 1]
                IN /\ nextId' = nextId + 1
                   /\ driveIdToPath' = Record(driveIdToPath, id, f)
                   /\ pathsToIds' = [pathsToIds EXCEPT ![p][f] = id]
                   /\ tasks' = [tasks EXCEPT ![p][f].st = "ok", ![p][f].id = id]
             /\ UNCHANGED notices
        ELSE /\ notices' = [notices EXCEPT ![p] = @ \cup {FolderError}]
             /\ tasks' = [tasks EXCEPT ![p][f].st = "failed"]
             /\ UNCHANGED <<nextId, driveIdToPath, pathsToIds>>
    /\ UNCHANGED <<syncing, operations, vault, events, pc, opsLocal,
                   deletes, configOnDrive, existsPending, deleteReq, batchNo, modTasks, persistReq,
                   pulled, calls, touched, startIndex>>
    /\ UNCHANGED undo

\* Mutant of BatchDone: the batch is not awaited.
BatchDoneNoWait(p) ==
    /\ pc[p] = "folders"
    /\ ~Busy
    /\ IF batchNo[p] < NumBatches(FolderTasks(p))
       THEN /\ batchNo' = [batchNo EXCEPT ![p] = @ + 1]
            /\ UNCHANGED pc
       ELSE /\ pc' = [pc EXCEPT ![p] = "notes"]
            /\ UNCHANGED batchNo
    /\ UNCHANGED <<shared, opsLocal, deletes, pathsToIds, configOnDrive, existsPending, deleteReq,
                   tasks, modTasks, persistReq, ghosts>>
    /\ UNCHANGED undo

\* Lines 192-193, 217-219: a folder batch has settled; the next batch starts,
\* or the notes do.
BatchDone(p) ==
    /\ pc[p] = "folders"
    /\ ~Busy
    /\ Settled(tasks[p], Batch(FolderTasks(p), batchNo[p]))
    /\ IF batchNo[p] < NumBatches(FolderTasks(p))
       THEN /\ batchNo' = [batchNo EXCEPT ![p] = @ + 1]
            /\ UNCHANGED pc
       ELSE /\ pc' = [pc EXCEPT ![p] = "notes"]
            /\ UNCHANGED batchNo
    /\ UNCHANGED <<shared, opsLocal, deletes, pathsToIds, configOnDrive, existsPending, deleteReq,
                   tasks, modTasks, persistReq, ghosts>>
    /\ UNCHANGED undo

\* Lines 220-222: a note's batched action starts and awaits
\* vault.readBinary(note).
StartNote(p, n) ==
    /\ pc[p] = "notes"
    /\ ~Busy
    /\ n \in NoteTasks(p)
    /\ tasks[p][n].st = "todo"
    /\ InFlight(tasks[p]) < BatchWidth
    /\ tasks' = [tasks EXCEPT ![p][n].st = "reading"]
    /\ UNCHANGED <<shared, pc, opsLocal, deletes, pathsToIds, configOnDrive, existsPending,
                   deleteReq, batchNo, modTasks, persistReq, ghosts>>
    /\ UNCHANGED undo

\* Lines 221-229: the read settles.  Resolved: uploadFile is issued with the
\* parent id that pathsToIds holds now.  Rejected: the action throws and no
\* request is issued.
NoteReadDone(p, n) ==
    /\ pc[p] = "notes"
    /\ ~Busy
    /\ n \in NoteTasks(p)
    /\ tasks[p][n].st = "reading"
    /\ IF ReadBinaryOk(n)
       THEN /\ tasks' = [tasks EXCEPT ![p][n] =
                           [st |-> "sent", parent |-> pathsToIds[p][Parent(n)], id |-> Nil]]
            /\ calls' = [calls EXCEPT ![p] = @ \cup {"uploadFile"}]
       ELSE /\ tasks' = [tasks EXCEPT ![p][n].st = "rejected"]
            /\ UNCHANGED calls
    /\ UNCHANGED <<shared, pc, opsLocal, deletes, pathsToIds, configOnDrive, existsPending,
                   deleteReq, batchNo, modTasks, persistReq, pulled, notices, touched,
                   startIndex>>
    /\ UNCHANGED undo

\* Lines 230-235: uploadFile settles.
NoteResp(p, n) ==
    /\ pc[p] = "notes"
    /\ ~Busy
    /\ n \in NoteTasks(p)
    /\ tasks[p][n].st = "sent"
    /\ \E ok \in BOOLEAN :
        IF ok
        THEN /\ nextId < Len(FreshIds)
             /\ LET id == FreshIds[nextId + 1]
                IN /\ nextId' = nextId + 1
                   /\ driveIdToPath' = Record(driveIdToPath, id, n)
                   /\ tasks' = [tasks EXCEPT ![p][n].st = "ok", ![p][n].id = id]
             /\ UNCHANGED notices
        ELSE /\ notices' = [notices EXCEPT ![p] = @ \cup {UploadError}]
             /\ tasks' = [tasks EXCEPT ![p][n].st = "failed"]
             /\ UNCHANGED <<nextId, driveIdToPath>>
    /\ UNCHANGED <<syncing, operations, vault, events, pc, opsLocal,
                   deletes, pathsToIds, configOnDrive, existsPending, deleteReq, batchNo, modTasks,
                   persistReq, pulled, calls, touched, startIndex>>
    /\ UNCHANGED undo

\* Mutant of NotesDone: the uploads are not awaited.
NotesDoneNoWait(p) ==
    /\ pc[p] = "notes"
    /\ ~Busy
    /\ pc' = [pc EXCEPT ![p] = "modifyPhase"]
    /\ UNCHANGED <<shared, locals, ghosts>>
    /\ UNCHANGED undo

\* Line 237: every upload has settled.
NotesDone(p) ==
    /\ pc[p] = "notes"
    /\ ~Busy
    /\ Settled(tasks[p], NoteTasks(p))
    /\ pc' = [pc EXCEPT ![p] = "modifyPhase"]
    /\ UNCHANGED <<shared, locals, ghosts>>
    /\ UNCHANGED undo

\* ------------------------------------------------------ push: modify phase
\* Lines 240-251: the journaled modifies that are files of the vault, each
\* with the id the Index resolves for it now.
ModifyPhase(p) ==
    /\ pc[p] = "modifyPhase"
    /\ IF Modifies(p) = {}
       THEN /\ pc' = [pc EXCEPT ![p] = "persistPhase"]
            /\ UNCHANGED modTasks
       ELSE LET files == {path \in Modifies(p) : path \in vault /\ ~IsFolder(path)}
                pathToId == InvertIndex(driveIdToPath)
            IN /\ modTasks' = [modTasks EXCEPT ![p] =
                                [f \in files |-> [st |-> "todo", id |-> pathToId[f]]]]
               /\ pc' = [pc EXCEPT ![p] = "modifies"]
    /\ UNCHANGED <<shared, opsLocal, deletes, pathsToIds, configOnDrive, existsPending, deleteReq,
                   tasks, batchNo, persistReq, ghosts>>
    /\ UNCHANGED undo

\* Lines 254-257: a batched action starts and awaits vault.readBinary(file).
StartMod(p, f) ==
    /\ pc[p] = "modifies"
    /\ ~Busy
    /\ f \in DOMAIN modTasks[p]
    /\ modTasks[p][f].st = "todo"
    /\ InFlight(modTasks[p]) < BatchWidth
    /\ modTasks' = [modTasks EXCEPT ![p][f].st = "reading"]
    /\ UNCHANGED <<shared, pc, opsLocal, deletes, pathsToIds, configOnDrive, existsPending,
                   deleteReq, tasks, batchNo, persistReq, ghosts>>
    /\ UNCHANGED undo

\* Lines 255-259: the read settles.  Resolved: updateFile is issued.
\* Rejected: the action throws and no request is issued.
ModReadDone(p, f) ==
    /\ pc[p] = "modifies"
    /\ ~Busy
    /\ f \in DOMAIN modTasks[p]
    /\ modTasks[p][f].st = "reading"
    /\ IF ReadBinaryOk(f)
       THEN /\ modTasks' = [modTasks EXCEPT ![p][f].st = "sent"]
            /\ calls' = [calls EXCEPT ![p] = @ \cup {"updateFile"}]
       ELSE /\ modTasks' = [modTasks EXCEPT ![p][f].st = "rejected"]
            /\ UNCHANGED calls
    /\ UNCHANGED <<shared, pc, opsLocal, deletes, pathsToIds, configOnDrive, existsPending,
                   deleteReq, tasks, batchNo, persistReq, pulled, notices, touched,
                   startIndex>>
    /\ UNCHANGED undo

\* Lines 260-264: updateFile settles.
ModResp(p, f) ==
    /\ pc[p] = "modifies"
    /\ ~Busy
    /\ f \in DOMAIN modTasks[p]
    /\ modTasks[p][f].st = "sent"
    /\ \E ok \in BOOLEAN :
        IF ok
        THEN /\ modTasks' = [modTasks EXCEPT ![p][f].st = "ok"]
             /\ UNCHANGED notices
        ELSE /\ modTasks' = [modTasks EXCEPT ![p][f].st = "failed"]
             /\ notices' = [notices EXCEPT ![p] = @ \cup {ModifyError}]
    /\ UNCHANGED <<shared, pc, opsLocal, deletes, pathsToIds, configOnDrive, existsPending, deleteReq,
                   tasks, batchNo, persistReq, pulled, calls, touched, startIndex>>
    /\ UNCHANGED undo

\* Line 266: every update has settled.
ModsDone(p) ==
    /\ pc[p] = "modifies"
    /\ ~Busy
    /\ Settled(modTasks[p], DOMAIN modTasks[p])
    /\ pc' = [pc EXCEPT ![p] = "persistPhase"]
    /\ UNCHANGED <<shared, locals, ghosts>>
    /\ UNCHANGED undo

\* ----------------------------------------------------------- push: persist
\* JSON.stringify(t.settings, null, 2)
SettingsBlob == [driveIdToPath |-> driveIdToPath, operations |-> operations, sent |-> TRUE]

\* Lines 269-273: the settings are serialized and their update is issued.
PersistPhase(p) ==
    /\ pc[p] = "persistPhase"
    /\ persistReq' = [persistReq EXCEPT ![p] =
                        [id |-> pathsToIds[p][ConfigPath], res |-> "sent", blob |-> SettingsBlob]]
    /\ calls' = [calls EXCEPT ![p] = @ \cup {"persist"}]
    /\ pc' = [pc EXCEPT ![p] = "persist"]
    /\ UNCHANGED <<shared, opsLocal, deletes, pathsToIds, configOnDrive, existsPending, deleteReq,
                   tasks, batchNo, modTasks, pulled, notices, touched, startIndex>>
    /\ UNCHANGED undo

\* Lines 273-276: the settings update settles, whatever its result; the
\* Journal is emptied and endSync is called, which clears the flag before
\* it first awaits.
PersistResp(p) ==
    /\ pc[p] = "persist"
    /\ ~Busy
    /\ \E ok \in BOOLEAN :
        /\ persistReq' = [persistReq EXCEPT ![p].res = IF ok THEN "ok" ELSE "failed"]
    /\ operations' = NoOps
    /\ syncing' = SyncingAfterEndSync
    /\ pc' = [pc EXCEPT ![p] = "endSync"]
    /\ UNCHANGED <<driveIdToPath, vault, nextId, events, opsLocal, deletes, pathsToIds,
                   configOnDrive, existsPending, deleteReq, tasks, batchNo, modTasks, ghosts>>
    /\ UNCHANGED undo

SyncComplete == "Sync complete!"

\* Lines 276-278: endSync has settled; the notice is raised and push returns.
EndSyncDone(p) ==
    /\ pc[p] = "endSync"
    /\ ~Busy
    /\ notices' = [notices EXCEPT ![p] = @ \cup {SyncComplete}]
    /\ pc' = [pc EXCEPT ![p] = "done"]
    /\ UNCHANGED <<shared, locals, pulled, calls, touched, startIndex>>
    /\ UNCHANGED undo

\* ------------------------------------------------------ filesystem watcher
\* A local mutation: the tree changes and the Journal records the kind for
\* the path, the most recent kind winning.
Touch(path) ==
    touched' = [p \in Procs |-> IF pc[p] \in AfterPartition \cup {"endSync", "done", "aborted"}
                                THEN touched[p] \cup {path} ELSE touched[p]]

LocalCreate(path) ==
    /\ ~Busy
    /\ events < MaxEvents
    /\ events' = events + 1
    /\ Touch(path)
    /\ path \notin vault
    /\ Parent(path) \in vault \cup {Root, NotesDir}
    /\ vault' = vault \cup {path}
    /\ operations' = [operations EXCEPT ![path] = "create"]
    /\ UNCHANGED <<syncing, driveIdToPath, nextId, pc, locals, pulled, calls, notices, startIndex>>
    /\ UNCHANGED undo

LocalModify(path) ==
    /\ ~Busy
    /\ events < MaxEvents
    /\ events' = events + 1
    /\ Touch(path)
    /\ path \in vault
    /\ ~IsFolder(path)
    /\ operations' = [operations EXCEPT ![path] = "modify"]
    /\ UNCHANGED <<syncing, driveIdToPath, vault, nextId, pc, locals, pulled, calls, notices, startIndex>>
    /\ UNCHANGED undo

LocalDelete(path) ==
    /\ ~Busy
    /\ events < MaxEvents
    /\ events' = events + 1
    /\ Touch(path)
    /\ path \in vault
    /\ \A c \in vault : Parent(c) # path
    /\ vault' = vault \ {path}
    /\ operations' = [operations EXCEPT ![path] = "delete"]
    /\ UNCHANGED <<syncing, driveIdToPath, nextId, pc, locals, pulled, calls, notices, startIndex>>
    /\ UNCHANGED undo

Next ==
    \/ \E p \in Procs :
        \/ Push(p)
        \/ StartPull(p)
        \/ PullDone(p)
        \/ SearchResp(p)
        \/ ExistsDone(p)
        \/ DeleteResp(p)
        \/ CreatePhase(p)
        \/ BatchDone(p)
        \/ NotesDone(p)
        \/ ModifyPhase(p)
        \/ ModsDone(p)
        \/ PersistPhase(p)
        \/ PersistResp(p)
        \/ EndSyncDone(p)
    \/ \E p \in Procs, path \in JournalPaths :
        \/ StartFolder(p, path)
        \/ FolderResp(p, path)
        \/ StartNote(p, path)
        \/ NoteReadDone(p, path)
        \/ NoteResp(p, path)
        \/ StartMod(p, path)
        \/ ModReadDone(p, path)
        \/ ModResp(p, path)
    \/ \E p \in Procs, c \in ConfigPaths : ExistsResp(p, c)
    \/ \E path \in WatchPaths :
        \/ LocalCreate(path)
        \/ LocalModify(path)
        \/ LocalDelete(path)

Spec == Init /\ [][Next]_vars

\* ============================================================ ConfirmUndoModal
\* ------------------------------------------------------------ the remote
UndoId(path) == IF path = MimePath THEN "id8" ELSE InitId(path)

\* mimeType of the remote object tagged with the path
RemoteMime(path) == IF IsFolder(path) THEN folderMimeType ELSE "text/markdown"

\* What drive.getFile(id).arrayBuffer() yields for the object
RemoteBytes(id) ==
    CASE id = "id1" -> "remote bytes id1"
      [] id = "id2" -> "remote bytes id2"
      [] id = "id4" -> "remote bytes id4"
      [] id = "id8" -> "remote bytes id8"
      [] OTHER -> Nil

\* modifiedTime of the object
RemoteTime(id) ==
    CASE id = "id1" -> "remote time id1"
      [] id = "id2" -> "remote time id2"
      [] id = "id4" -> "remote time id4"
      [] id = "id8" -> "remote time id8"
      [] OTHER -> Nil

\* Lines 41-46: Object.fromEntries(Object.entries(driveIdToPath).map(...))
FilePathToId(idx) ==
    [path \in UndoPaths |->
        LET hits == {i \in DOMAIN idx : idx[i][2] = path}
        IN IF hits = {} THEN Nil ELSE idx[MaxOf(hits)][1]]

\* ------------------------------------------------------------ UndoInit
TreeOf(S) == [path \in UndoPaths |-> IF path \in S THEN LocalNode(path) ELSE Absent]

UndoTrees == {TreeOf(S) : S \in {T \in SUBSET UndoPaths : Note \in T => Folder \in T}}

IndexOf(S) ==
    SelectSeq([i \in DOMAIN UndoOrder |-> <<UndoId(UndoOrder[i]), UndoOrder[i]>>],
              LAMBDA e : e[2] \in S)

UndoIndexes == {IndexOf(UndoPaths), IndexOf(UndoPaths \ {Note})}

\* The modal has been constructed over some tree and Index; no push runs.
UndoInit ==
    /\ syncing = FALSE
    /\ vault = {}
    /\ operations = NoOps
    /\ driveIdToPath \in UndoIndexes
    /\ nextId = 0
    /\ events = 0
    /\ pc = [p \in Procs |-> "idle"]
    /\ pulled = [p \in Procs |-> "no"]
    /\ opsLocal = [p \in Procs |-> NoOps]
    /\ deletes = [p \in Procs |-> {}]
    /\ pathsToIds = [p \in Procs |-> [path \in AllPaths |-> Nil]]
    /\ configOnDrive = [p \in Procs |-> {}]
    /\ existsPending = [p \in Procs |-> {}]
    /\ deleteReq = [p \in Procs |-> {}]
    /\ tasks = [p \in Procs |-> EmptyFn]
    /\ batchNo = [p \in Procs |-> 0]
    /\ modTasks = [p \in Procs |-> EmptyFn]
    /\ persistReq = [p \in Procs |-> NoPersist]
    /\ calls = [p \in Procs |-> {}]
    /\ notices = [p \in Procs |-> {}]
    /\ touched = [p \in Procs |-> {}]
    /\ startIndex = [p \in Procs |-> <<>>]
    /\ undoPc = "open"
    /\ undoOp = "none"
    /\ undoPaths = {}
    /\ localTree \in UndoTrees
    /\ filePathToId = FilePathToId(driveIdToPath)
    /\ faults = NoFaults
    /\ pathToFile = {}
    /\ undoTasks = EmptyFn
    /\ undoBatch = 0
    /\ undoCalls = {}
    /\ undoNotices = {}
    /\ treeAtCall = NoTree
    /\ preCreate = NoCreate

\* ------------------------------------------------------------ local creation
\* The user creates a node; its reversal may be asked for next.
UndoLocalCreate(path) ==
    /\ undoPc = "open"
    /\ preCreate = NoCreate
    /\ localTree[path] = Absent
    /\ Parent(path) \in UndoPaths => localTree[Parent(path)].kind = "folder"
    /\ localTree' = [localTree EXCEPT ![path] = LocalNode(path)]
    /\ preCreate' = [path |-> path, tree |-> localTree]
    /\ UNCHANGED <<undoPc, undoOp, undoPaths, filePathToId, faults, pathToFile,
                   undoTasks, undoBatch, undoCalls, undoNotices, treeAtCall>>
    /\ UNCHANGED pushVars

\* ------------------------------------------------------------ handleCreate
\* t.deleteFile(file): the node and what it contains leave the tree
DeleteFile(tree, path) ==
    [q \in UndoPaths |-> IF q = path \/ Parent(q) = path THEN Absent ELSE tree[q]]

\* Mutant of HandleCreate: the node is looked up and not deleted.
HandleCreateNoDelete(path) ==
    /\ undoPc = "open"
    /\ undoOp' = "create"
    /\ undoPaths' = {path}
    /\ treeAtCall' = localTree
    /\ undoPc' = "returned"
    /\ UNCHANGED <<localTree, undoCalls>>
    /\ UNCHANGED <<filePathToId, faults, pathToFile, undoTasks, undoBatch,
                   undoNotices, preCreate>>
    /\ UNCHANGED pushVars

\* Lines 104-108
HandleCreate(path) ==
    /\ undoPc = "open"
    /\ undoOp' = "create"
    /\ undoPaths' = {path}
    /\ treeAtCall' = localTree
    /\ IF localTree[path].kind = "absent"
       THEN UNCHANGED <<localTree, undoCalls>>
       ELSE /\ localTree' = DeleteFile(localTree, path)
            /\ undoCalls' = undoCalls \cup {<<"deleteFile", path>>}
    /\ undoPc' = "returned"
    /\ UNCHANGED <<filePathToId, faults, pathToFile, undoTasks, undoBatch,
                   undoNotices, preCreate>>
    /\ UNCHANGED pushVars

\* ------------------------------------------------------------ handleDelete
\* What the remote may fail to return while a batch of deletes is reversed:
\* the whole search, the objects of some paths, the content of some paths.
\* An id the Index did not resolve yields no content.
DeleteFaults(paths) ==
    {f \in [search : BOOLEAN, missing : SUBSET paths, noContent : SUBSET paths,
            noMetadata : {FALSE}] :
        /\ {path \in paths : filePathToId[path] = Nil} \subseteq f.noContent
        /\ f.search => f.missing = {}
        /\ (f.search \/ f.missing # {}) =>
              f.noContent = {path \in paths : filePathToId[path] = Nil}}

\* Lines 55-59: the search for the objects tagged with the paths is issued.
HandleDelete(paths) ==
    /\ undoPc = "open"
    /\ paths # {}
    /\ \A path \in paths : localTree[path] = Absent
    /\ faults' \in DeleteFaults(paths)
    /\ undoOp' = "delete"
    /\ undoPaths' = paths
    /\ treeAtCall' = localTree
    /\ undoCalls' = undoCalls \cup {<<"searchFiles", Nil>>}
    /\ undoPc' = "search"
    /\ UNCHANGED <<localTree, filePathToId, pathToFile, undoTasks, undoBatch,
                   undoNotices, preCreate>>
    /\ UNCHANGED pushVars

\* Lines 68-70: paths.filter(path => pathToFile[path].properties.path === folderMimeType);
\* pathToFile is keyed by properties.path.
DeletedFolders(paths) == {path \in paths : path = folderMimeType}

\* Lines 81-83
DeletedFiles(paths) == {path \in paths : path # folderMimeType}

\* Lines 60-73, 81-85: the search settles.  No result: a notice and return.
\* A path without an object makes line 69 read a property of undefined: the
\* handler throws.
DeleteSearchResp ==
    /\ undoPc = "search"
    /\ IF faults.search
       THEN /\ undoNotices' = undoNotices \cup {FetchError}
            /\ undoPc' = "returned"
            /\ UNCHANGED <<pathToFile, undoTasks, undoBatch>>
       ELSE /\ pathToFile' = undoPaths \ faults.missing
            /\ UNCHANGED undoNotices
            /\ IF faults.missing # {}
               THEN /\ undoPc' = "thrown"
                    /\ UNCHANGED <<undoTasks, undoBatch>>
               ELSE IF DeletedFolders(undoPaths) # {}
                    THEN /\ undoTasks' = [g \in DeletedFolders(undoPaths) |-> [st |-> "todo"]]
                         /\ undoBatch' = 1
                         /\ undoPc' = "undoFolders"
                    ELSE /\ undoTasks' = [g \in DeletedFiles(undoPaths) |-> [st |-> "todo"]]
                         /\ undoPc' = "undoFiles"
                         /\ UNCHANGED undoBatch
    /\ UNCHANGED <<undoOp, undoPaths, localTree, filePathToId, faults, undoCalls,
                   treeAtCall, preCreate>>
    /\ UNCHANGED pushVars

\* Line 76: this.t.createFolder(folder) for a folder of the running batch.
UndoCreateFolder(g) ==
    /\ undoPc = "undoFolders"
    /\ g \in Batch(DeletedFolders(undoPaths), undoBatch)
    /\ undoTasks[g].st = "todo"
    /\ undoTasks' = [undoTasks EXCEPT ![g].st = "ok"]
    /\ localTree' = [localTree EXCEPT ![g] = [kind |-> "folder", content |-> Nil, mtime |-> Nil]]
    /\ undoCalls' = undoCalls \cup {<<"createFolder", g>>}
    /\ UNCHANGED <<undoPc, undoOp, undoPaths, filePathToId, faults, pathToFile,
                   undoBatch, undoNotices, treeAtCall, preCreate>>
    /\ UNCHANGED pushVars

\* Lines 74-85: the batch has settled; the next batch starts, or the files do.
UndoBatchDone ==
    /\ undoPc = "undoFolders"
    /\ Settled(undoTasks, Batch(DeletedFolders(undoPaths), undoBatch))
    /\ IF undoBatch < NumBatches(DeletedFolders(undoPaths))
       THEN /\ undoBatch' = undoBatch + 1
            /\ UNCHANGED <<undoPc, undoTasks>>
       ELSE /\ undoTasks' = [g \in DeletedFiles(undoPaths) |-> [st |-> "todo"]]
            /\ undoPc' = "undoFiles"
            /\ UNCHANGED undoBatch
    /\ UNCHANGED <<undoOp, undoPaths, localTree, filePathToId, faults, pathToFile,
                   undoCalls, undoNotices, treeAtCall, preCreate>>
    /\ UNCHANGED pushVars

\* Lines 87-89: a batched action starts; the content is asked for.
UndoStartFetch(path) ==
    /\ undoPc = "undoFiles"
    /\ path \in DOMAIN undoTasks
    /\ undoTasks[path].st = "todo"
    /\ InFlight(undoTasks) < BatchWidth
    /\ undoTasks' = [undoTasks EXCEPT ![path].st = "sent"]
    /\ undoCalls' = undoCalls \cup {<<"getFile", path>>}
    /\ UNCHANGED <<undoPc, undoOp, undoPaths, localTree, filePathToId, faults,
                   pathToFile, undoBatch, undoNotices, treeAtCall, preCreate>>
    /\ UNCHANGED pushVars

\* t.createFile(path, content, modifiedTime): a local file with that content
CreateFile(tree, path, content, modifiedTime) ==
    [tree EXCEPT ![path] = [kind |-> "file", content |-> content, mtime |-> modifiedTime]]

\* Lines 90-99: the content fetch settles.
UndoFetchResp(path) ==
    /\ undoPc = "undoFiles"
    /\ path \in DOMAIN undoTasks
    /\ undoTasks[path].st = "sent"
    /\ IF path \in faults.noContent
       THEN /\ undoNotices' = undoNotices \cup {FetchError}
            /\ undoTasks' = [undoTasks EXCEPT ![path].st = "failed"]
            /\ UNCHANGED <<localTree, undoCalls>>
       ELSE /\ localTree' = CreateFile(localTree, path, RemoteBytes(filePathToId[path]),
                                       RemoteTime(UndoId(path)))
            /\ undoCalls' = undoCalls \cup {<<"createFile", path>>}
            /\ undoTasks' = [undoTasks EXCEPT ![path].st = "ok"]
            /\ UNCHANGED undoNotices
    /\ UNCHANGED <<undoPc, undoOp, undoPaths, filePathToId, faults, pathToFile,
                   undoBatch, treeAtCall, preCreate>>
    /\ UNCHANGED pushVars

\* Lines 101-102: every batched action has settled.
UndoFilesDone ==
    /\ undoPc = "undoFiles"
    /\ Settled(undoTasks, DOMAIN undoTasks)
    /\ undoPc' = "returned"
    /\ UNCHANGED <<undoOp, undoPaths, localTree, filePathToId, faults, pathToFile,
                   undoTasks, undoBatch, undoCalls, undoNotices, treeAtCall, preCreate>>
    /\ UNCHANGED pushVars

\* ------------------------------------------------------------ handleModify
\* What the remote may fail to return while a modify is reversed: the
\* content, the metadata.  An id the Index did not resolve yields neither.
ModifyFaults(path) ==
    {f \in [search : {FALSE}, missing : {{}}, noContent : {{}, {path}},
            noMetadata : BOOLEAN] :
        /\ localTree[path].kind # "file" => f = NoFaults
        /\ (localTree[path].kind = "file" /\ filePathToId[path] = Nil)
              => (f.noContent = {path} /\ f.noMetadata)}

ModCalls == {"getFile", "getFileMetadata"}

\* Lines 110-117: the file is looked up; its content and metadata are asked for.
HandleModify(path) ==
    /\ undoPc = "open"
    /\ faults' \in ModifyFaults(path)
    /\ undoOp' = "modify"
    /\ undoPaths' = {path}
    /\ treeAtCall' = localTree
    /\ IF localTree[path].kind # "file"
       THEN /\ undoPc' = "returned"
            /\ UNCHANGED <<undoTasks, undoCalls>>
       ELSE /\ undoTasks' = [c \in ModCalls |-> [st |-> "sent"]]
            /\ undoCalls' = undoCalls \cup {<<"getFile", path>>, <<"getFileMetadata", path>>}
            /\ undoPc' = "modFetch"
    /\ UNCHANGED <<localTree, filePathToId, pathToFile, undoBatch, undoNotices, preCreate>>
    /\ UNCHANGED pushVars

\* Line 115: getFile(...).arrayBuffer() settles.
ModContentResp ==
    /\ undoPc = "modFetch"
    /\ undoTasks["getFile"].st = "sent"
    /\ undoTasks' = [undoTasks EXCEPT !["getFile"].st =
                        IF faults.noContent # {} THEN "failed" ELSE "ok"]
    /\ UNCHANGED <<undoPc, undoOp, undoPaths, localTree, filePathToId, faults, pathToFile,
                   undoBatch, undoCalls, undoNotices, treeAtCall, preCreate>>
    /\ UNCHANGED pushVars

\* Line 116: getFileMetadata(...) settles.
ModMetaResp ==
    /\ undoPc = "modFetch"
    /\ undoTasks["getFileMetadata"].st = "sent"
    /\ undoTasks' = [undoTasks EXCEPT !["getFileMetadata"].st =
                        IF faults.noMetadata THEN "failed" ELSE "ok"]
    /\ UNCHANGED <<undoPc, undoOp, undoPaths, localTree, filePathToId, faults, pathToFile,
                   undoBatch, undoCalls, undoNotices, treeAtCall, preCreate>>
    /\ UNCHANGED pushVars

\* t.modifyFile(file, content, modifiedTime): the file takes that content
ModifyFile(tree, path, content, modifiedTime) ==
    [tree EXCEPT ![path] = [kind |-> "file", content |-> content, mtime |-> modifiedTime]]

\* Mutant of UndoModifyDone: the metadata is not looked at.
UndoModifyDoneContentOnly ==
    /\ undoPc = "modFetch"
    /\ Settled(undoTasks, ModCalls)
    /\ LET path == CHOOSE q \in undoPaths : TRUE
       IN IF undoTasks["getFile"].st = "failed"
          THEN /\ undoNotices' = undoNotices \cup {FetchError}
               /\ UNCHANGED <<localTree, undoCalls>>
          ELSE /\ localTree' = ModifyFile(localTree, path, RemoteBytes(filePathToId[path]),
                                          localTree[path].mtime)
               /\ undoCalls' = undoCalls \cup {<<"modifyFile", path>>}
               /\ UNCHANGED undoNotices
    /\ undoPc' = "returned"
    /\ UNCHANGED <<undoOp, undoPaths, filePathToId, faults, pathToFile, undoTasks,
                   undoBatch, treeAtCall, preCreate>>
    /\ UNCHANGED pushVars

\* Lines 118-121: both fetches have settled.
UndoModifyDone ==
    /\ undoPc = "modFetch"
    /\ Settled(undoTasks, ModCalls)
    /\ LET path == CHOOSE q \in undoPaths : TRUE
       IN IF undoTasks["getFile"].st = "failed" \/ undoTasks["getFileMetadata"].st = "failed"
          THEN /\ undoNotices' = undoNotices \cup {FetchError}
               /\ UNCHANGED <<localTree, undoCalls>>
          ELSE /\ localTree' = ModifyFile(localTree, path, RemoteBytes(filePathToId[path]),
                                          RemoteTime(filePathToId[path]))
               /\ undoCalls' = undoCalls \cup {<<"modifyFile", path>>}
               /\ UNCHANGED undoNotices
    /\ undoPc' = "returned"
    /\ UNCHANGED <<undoOp, undoPaths, filePathToId, faults, pathToFile, undoTasks,
                   undoBatch, treeAtCall, preCreate>>
    /\ UNCHANGED pushVars

UndoNext ==
    \/ \E path \in UndoPaths :
        \/ UndoLocalCreate(path)
        \/ HandleCreate(path)
        \/ UndoCreateFolder(path)
        \/ UndoStartFetch(path)
        \/ UndoFetchResp(path)
        \/ HandleModify(path)
    \/ \E paths \in SUBSET UndoPaths : HandleDelete(paths)
    \/ DeleteSearchResp
    \/ UndoBatchDone
    \/ UndoFilesDone
    \/ ModContentResp
    \/ ModMetaResp
    \/ UndoModifyDone

UndoSpec == UndoInit /\ [][UndoNext]_vars

\* ================================================================= claims
\* The session of the invocation is over: endSync has been called, push has
\* returned, or the run was aborted.
Ended == {"endSync", "done", "aborted"}

\* No later invocation has got as far as partitioning the Journal.
Latest(p) ==
    \A q \in Procs : q > p => pc[q] \in {"idle", "returned", "startSync", "pull"}
InSession == {"startSync", "pull"} \cup AfterPartition

\* A batched action of the create or modify phase has returned no id
ActionFailed(p) ==
    \/ \E f \in DOMAIN tasks[p] : tasks[p][f].st = "failed"
    \/ \E f \in DOMAIN modTasks[p] : modTasks[p][f].st = "failed"

\* Every entry the Journal held at the partition is still in it, the paths
\* the watcher wrote since aside.
JournalKept(p) ==
    \A path \in JournalPaths \ touched[p] :
        opsLocal[p][path] # "none" => operations[path] = opsLocal[p][path]

\* ---------------------------------------------------------------------- C1
\* C1: every push run that set the syncing flag has cleared it when the run
\* has ended, on the success path and on every failure path, so that a
\* following push is not blocked by a flag left set.
C1_FlagClearedWhenRunEnds ==
    \A p \in Procs :
        (pc[p] \in Ended /\ \A q \in Procs : pc[q] \notin InSession) => ~syncing

\* ---------------------------------------------------------------------- C2
\* C2: when a batched action of the create or modify phase returned no id,
\* the run ends with every entry the Journal held at the partition still in
\* the Journal.
C2_JournalKeptWhenActionFailed ==
    \A p \in Procs : (pc[p] = "done" /\ Latest(p) /\ ActionFailed(p)) => JournalKept(p)

\* ---------------------------------------------------------------------- C4
\* C4: when the update of the settings object returned no result, the
\* Journal keeps every entry it had.
C4_JournalKeptWhenPersistFailed ==
    \A p \in Procs :
        (pc[p] = "done" /\ Latest(p) /\ persistReq[p].res = "failed") => JournalKept(p)

\* ---------------------------------------------------------------------- C5
\* C5: once the bulk delete request of a run has succeeded, the Index has no
\* entry whose path was in the delete set (journaled deletes and stale
\* config objects).
PastDelete == {"createPhase", "folders", "notes", "modifyPhase", "modifies",
               "persistPhase", "persist", "endSync", "done"}

C5_DeletedPathsForgotten ==
    \A p \in Procs :
        (pc[p] \in PastDelete /\ Latest(p)) =>
            \A path \in deletes[p] : path \notin IndexPaths(driveIdToPath)

\* ---------------------------------------------------------------------- C3
LaterCalls == {"createFolder", "uploadFile", "updateFile", "persist"}

\* The Journal is what it was at the partition, the paths the watcher wrote
\* since aside.
JournalSame(p) ==
    \A path \in JournalPaths \ touched[p] : operations[path] = opsLocal[p][path]

\* C3: when the config search returned no result or the bulk delete reported
\* failure, the run is aborted: it has issued no create, upload or update
\* request, and the Journal and the Index are what they were when the delete
\* phase began.
C3_AbortLeavesJournalAndIndex ==
    \A p \in Procs :
        (FetchError \in notices[p] \/ DeleteError \in notices[p]) =>
            /\ pc[p] = "aborted"
            /\ calls[p] \cap LaterCalls = {}
            /\ tasks[p] = EmptyFn /\ modTasks[p] = EmptyFn
            /\ driveIdToPath = startIndex[p]
            /\ JournalSame(p)

C3_Witness ==
    \E p \in Procs :
        /\ pc[p] = "aborted"
        /\ DeleteError \in notices[p]
        /\ \E path \in JournalPaths : opsLocal[p][path] = "create"
        /\ \E path \in JournalPaths : opsLocal[p][path] = "delete"

\* ---------------------------------------------------------------------- C6
CreateStarted == {"folders", "notes", "modifyPhase", "modifies", "persistPhase",
                  "persist", "endSync", "done"}

Created(p) == {f \in DOMAIN tasks[p] : tasks[p][f].st = "ok"}

\* C6: in the create phase every container or leaf whose remote creation
\* succeeded is recorded once, the Index mapping the returned id to its path,
\* and a node whose creation returned no id adds no entry to the Index.
C6_RecordedOncePerCreation ==
    \A p \in Procs :
        pc[p] \in CreateStarted =>
            /\ \A f \in Created(p) : IndexHas(driveIdToPath, tasks[p][f].id, f)
            /\ \A f, g \in Created(p) : tasks[p][f].id = tasks[p][g].id => f = g
            /\ Latest(p) =>
                  IndexKeys(driveIdToPath) \ IndexKeys(startIndex[p])
                      = {tasks[p][f].id : f \in Created(p)}

C6_Witness ==
    \E p \in Procs :
        /\ pc[p] = "modifyPhase"
        /\ \E f \in Created(p) : IsFolder(f)
        /\ \E f \in Created(p) : ~IsFolder(f)
        /\ \E f \in DOMAIN tasks[p] : tasks[p][f].st = "failed"

\* ---------------------------------------------------------------------- C7
\* C7: pull(t, true) has been invoked and has completed before the Journal
\* is partitioned and before any remote request of the run is issued.
C7_PullCompletedFirst ==
    \A p \in Procs :
        (\/ pc[p] \in AfterPartition \cup Ended
         \/ calls[p] # {}
         \/ opsLocal[p] # NoOps
         \/ deletes[p] # {})
            => pulled[p] = "completed"

C7_Witness ==
    \E p \in Procs :
        /\ pc[p] = "search"
        /\ "search" \in calls[p]
        /\ pulled[p] = "completed"
        /\ opsLocal[p] # NoOps

\* ---------------------------------------------------------------------- C8
\* C8 as stated: a push with an empty Journal issues no remote call and
\* leaves the Index unchanged.
C8_EmptyJournalNoRemoteCall ==
    \A p \in Procs :
        (pc[p] \in AfterPartition \cup Ended /\ opsLocal[p] = NoOps) =>
            /\ calls[p] = {}
            /\ Latest(p) => driveIdToPath = startIndex[p]

\* C8 amended: a push with an empty Journal issues no createFolder,
\* uploadFile or updateFile of a note; it issues the config search, a bulk
\* delete only when a stale config object was found, and the settings
\* update; it leaves the Index unchanged.
C8_EmptyJournalOnlyConfigCalls ==
    \A p \in Procs :
        (pc[p] \in AfterPartition \cup Ended /\ opsLocal[p] = NoOps) =>
            /\ calls[p] \subseteq {"search", "batchDelete", "persist"}
            /\ "search" \in calls[p]
            /\ "batchDelete" \in calls[p] => StalePath \in deletes[p]
            /\ pc[p] = "done" => "persist" \in calls[p]
            /\ tasks[p] = EmptyFn /\ modTasks[p] = EmptyFn
            /\ Latest(p) => driveIdToPath = startIndex[p]

C8_Witness ==
    \E p \in Procs :
        /\ pc[p] = "done"
        /\ opsLocal[p] = NoOps
        /\ calls[p] = {"search", "batchDelete", "persist"}
        /\ StalePath \in deletes[p]
        /\ driveIdToPath = startIndex[p]

\* ---------------------------------------------------------------------- C9
\* C9: at most one sync session is in progress at any time.  A push invoked
\* while the flag is set returns without starting a session, calling pull,
\* issuing a remote call or changing the Journal or the Index.
C9_SingleSession ==
    /\ [](/\ Cardinality({p \in Procs : pc[p] \in InSession}) <= 1
          /\ \A p \in Procs :
                pc[p] = "returned" =>
                    /\ pulled[p] = "no"
                    /\ calls[p] = {}
                    /\ opsLocal[p] = NoOps /\ deletes[p] = {}
                    /\ tasks[p] = EmptyFn /\ modTasks[p] = EmptyFn)
    /\ [][\A p \in Procs :
            (pc[p] = "idle" /\ syncing /\ pc'[p] # "idle") =>
                /\ pc'[p] = "returned"
                /\ UNCHANGED <<syncing, operations, driveIdToPath>>]_vars

C9_Witness ==
    \E p, q \in Procs :
        /\ pc[p] \in AfterPartition
        /\ pc[q] = "returned"

\* --------------------------------------------------------------------- C10
Issued(p, f) == tasks[p][f].st \in {"sent", "ok", "failed"}
HasSettled(p, f) == tasks[p][f].st \in {"ok", "failed", "rejected"}

\* C10: container batches run one after another in depth order and all of
\* them settle before any leaf upload starts: when the request of a node is
\* issued, every container of an earlier batch has settled, and a parent
\* created in this run is passed to the request by the id it was given.
C10_ContainersBeforeChildren ==
    \A p \in Procs :
        \A f \in DOMAIN tasks[p] :
            Issued(p, f) =>
                /\ \A g \in FolderTasks(p) :
                      (~IsFolder(f) \/ Depth(g, FolderTasks(p)) < Depth(f, FolderTasks(p)))
                          => HasSettled(p, g)
                /\ (Parent(f) \in Created(p))
                      => tasks[p][f].parent = tasks[p][Parent(f)].id

C10_Witness ==
    \E p \in Procs :
        /\ {Folder, SubFolder, Note} \subseteq DOMAIN tasks[p]
        /\ tasks[p][Folder].st = "ok"
        /\ tasks[p][SubFolder].st = "sent"
        /\ tasks[p][SubFolder].parent = tasks[p][Folder].id
        /\ tasks[p][Note].st = "todo"

\* --------------------------------------------------------------------- C14
CreateIssued(p) == \E f \in DOMAIN tasks[p] : Issued(p, f)
ModIssued(p) == \E f \in DOMAIN modTasks[p] : modTasks[p][f].st \in {"sent", "ok", "failed"}
PersistIssued(p) == persistReq[p].res # "none"
DeleteInFlight(p) == pc[p] \in {"search", "exists", "existsDone", "delete"}

\* C14: within one run the phases follow one another in the order delete,
\* create, modify, persist: no createFolder or uploadFile request is issued
\* before the bulk delete has settled, no updateFile request of the modify
\* phase before every action of the create phase has settled, and the
\* settings update only after every action of the modify phase has settled.
C14_PhasesSequential ==
    \A p \in Procs :
        /\ CreateIssued(p) => ~DeleteInFlight(p)
        /\ ModIssued(p) =>
              /\ ~DeleteInFlight(p)
              /\ Settled(tasks[p], DOMAIN tasks[p])
        /\ PersistIssued(p) =>
              /\ ~DeleteInFlight(p)
              /\ Settled(tasks[p], DOMAIN tasks[p])
              /\ Settled(modTasks[p], DOMAIN modTasks[p])

C14_Witness ==
    \E p \in Procs :
        /\ persistReq[p].res = "sent"
        /\ "batchDelete" \in calls[p]
        /\ CreateIssued(p)
        /\ ModIssued(p)

\* --------------------------------------------------------------------- C15
\* C15: no batchDelete and no updateFile of the modify phase is issued with
\* an id that the Index did not resolve.
C15_NoUnresolvedIdSent ==
    \A p \in Procs :
        /\ Nil \notin deleteReq[p]
        /\ \A f \in DOMAIN modTasks[p] :
              modTasks[p][f].st \in {"sent", "ok", "failed"} => modTasks[p][f].id # Nil

\* --------------------------------------------------------------------- C16
\* The paths of the entries the Index gained since the partition
AddedPaths(p) ==
    {driveIdToPath[i][2] : i \in {k \in DOMAIN driveIdToPath :
                                      driveIdToPath[k][1] \notin IndexKeys(startIndex[p])}}

\* C16: a journaled create or modify whose path is not in the local tree
\* when its phase runs is skipped: no request is issued for it, the Index
\* gains no entry for it, it raises no error notice, and the run goes on to
\* the next phase.
C16_MissingPathIsNoOp ==
    /\ [][\A p \in Procs : \A path \in JournalPaths :
            /\ (pc[p] = "createPhase" /\ pc'[p] # "createPhase"
                    /\ path \in Creates(p) /\ path \notin vault)
                  => /\ path \notin DOMAIN tasks'[p]
                     /\ pc'[p] \in {"folders", "notes", "modifyPhase"}
                     /\ notices'[p] = notices[p]
            /\ (pc[p] = "modifyPhase" /\ pc'[p] # "modifyPhase"
                    /\ path \in Modifies(p) /\ path \notin vault)
                  => /\ path \notin DOMAIN modTasks'[p]
                     /\ pc'[p] \in {"modifies", "persistPhase"}
                     /\ notices'[p] = notices[p]]_vars
    /\ [](\A p \in Procs :
            /\ (pc[p] \in CreateStarted /\ Latest(p)) =>
                  AddedPaths(p) \subseteq {f \in DOMAIN tasks[p] : Issued(p, f)}
            /\ (notices[p] \cap {FolderError, UploadError} # {})
                  => \E f \in DOMAIN tasks[p] : tasks[p][f].st = "failed"
            /\ ModifyError \in notices[p]
                  => \E f \in DOMAIN modTasks[p] : modTasks[p][f].st = "failed")

C16_Witness ==
    \E p \in Procs :
        /\ pc[p] = "done"
        /\ "persist" \in calls[p]
        /\ notices[p] = {SyncComplete}
        /\ \/ \E path \in Creates(p) : path \notin DOMAIN tasks[p]
           \/ \E path \in Modifies(p) : path \notin DOMAIN modTasks[p]

\* --------------------------------------------------------------------- C17
\* C17: a createFolder or uploadFile request for a node whose parent is
\* created in the same run carries the id recorded for the parent, never
\* an unresolved one.
C17_ChildCarriesRecordedParent ==
    \A p \in Procs :
        \A f \in DOMAIN tasks[p] :
            (Issued(p, f) /\ Parent(f) \in DOMAIN tasks[p]) =>
                /\ tasks[p][f].parent # Nil
                /\ tasks[p][f].parent = tasks[p][Parent(f)].id

\* --------------------------------------------------------------------- C19
\* C19: an operation the watcher put into the Journal after the run
\* partitioned it is still in the Journal when the run has completed.
C19_MidRunInsertKept ==
    \A p \in Procs :
        (pc[p] = "done" /\ Latest(p)) =>
            \A path \in touched[p] : operations[path] # "none"

\* --------------------------------------------------------------------- C20
\* C20: after a push whose settings update succeeded, the snapshot sent to
\* the remote equals the local state at the end of the run: the same Index
\* and the same Journal (the paths the watcher wrote during or after the
\* run aside).
C20_SnapshotEqualsLocalState ==
    \A p \in Procs :
        (pc[p] = "done" /\ Latest(p) /\ persistReq[p].res = "ok") =>
            /\ persistReq[p].blob.driveIdToPath = driveIdToPath
            /\ \A path \in JournalPaths \ touched[p] :
                  persistReq[p].blob.operations[path] = operations[path]

\* --------------------------------------------------------------------- C11
\* C11: the reversal of a create deletes the local node at the path and
\* issues no remote call: a node created and then reversed is absent and the
\* tree is what it was before the creation; when no node is at the path the
\* reversal changes nothing.
C11_CreateReversed ==
    (undoPc = "returned" /\ undoOp = "create") =>
        \A path \in undoPaths :
            /\ localTree[path] = Absent
            /\ undoCalls \subseteq {<<"deleteFile", path>>}
            /\ treeAtCall[path] = Absent => (localTree = treeAtCall /\ undoCalls = {})
            /\ preCreate.path = path => localTree = preCreate.tree

C11_Witness ==
    /\ undoPc = "returned"
    /\ undoOp = "create"
    /\ preCreate.path \in undoPaths
    /\ treeAtCall[preCreate.path].kind = "file"
    /\ localTree = preCreate.tree

\* --------------------------------------------------------------------- C12
\* C12: in the reversal of a batch of deletes a deleted container is
\* recreated as an empty local folder and its content is never fetched, and
\* a leaf is recreated only when the container of the batch that holds it
\* has been recreated.
C12_ContainersRecreatedFirst ==
    undoOp = "delete" =>
        \A path \in undoPaths :
            /\ RemoteMime(path) = folderMimeType =>
                  /\ <<"getFile", path>> \notin undoCalls
                  /\ (undoPc = "returned" /\ ~faults.search)
                        => localTree[path].kind = "folder"
            /\ (<<"createFile", path>> \in undoCalls /\ Parent(path) \in undoPaths)
                  => localTree[Parent(path)].kind = "folder"

\* --------------------------------------------------------------------- C13
\* The remote returned the object and the content of the path
Available(path) ==
    /\ ~faults.search
    /\ path \notin faults.missing
    /\ path \notin faults.noContent

\* C13: when the reversal of a batch of deletes has ended, every path whose
\* object and content the remote returned has been recreated locally, and
\* an error has been reported when some path's were not returned.
C13_OtherPathsRecreated ==
    (undoOp = "delete" /\ undoPc \in {"returned", "thrown"}) =>
        /\ \A path \in undoPaths : Available(path) => localTree[path].kind # "absent"
        /\ (\E path \in undoPaths : ~Available(path)) => FetchError \in undoNotices

\* --------------------------------------------------------------------- C18
\* C18: the reversal of a modify gives the local file the content and the
\* modification time of the remote object the Index resolves for the path;
\* when the content or the metadata fetch returned nothing it reports an
\* error and leaves the file as it was; when no local file is at the path it
\* does nothing.
C18_ModifyReversed ==
    (undoPc = "returned" /\ undoOp = "modify") =>
        \A path \in undoPaths :
            LET id == FilePathToId(driveIdToPath)[path]
                isFile == treeAtCall[path].kind = "file"
                failed == faults.noContent # {} \/ faults.noMetadata
            IN /\ ~isFile => (localTree = treeAtCall /\ undoCalls = {} /\ undoNotices = {})
               /\ (isFile /\ failed) => (localTree = treeAtCall /\ FetchError \in undoNotices)
               /\ (isFile /\ ~failed) =>
                     /\ localTree = [treeAtCall EXCEPT ![path] =
                            [kind |-> "file", content |-> RemoteBytes(id), mtime |-> RemoteTime(id)]]
                     /\ id # Nil
                     /\ undoNotices = {}

C18_Witness ==
    /\ undoPc = "returned"
    /\ undoOp = "modify"
    /\ <<"modifyFile", Note>> \in undoCalls
    /\ localTree[Note].content = RemoteBytes("id4")
    /\ localTree[Note].mtime = RemoteTime("id4")
====
